---- MODULE Spec2Model ----
(***************************************************************************)
(* Request resolution and rendering of the Astro runtime:                  *)
(*   searchForPage / loadCollection  (runtime/search.ts)                   *)
(*   load                            (runtime/index.ts)                    *)
(* Strings are sequences of one-character strings, so that the regular     *)
(* expressions and the string surgery of the code are computed, not        *)
(* assumed.                                                                *)
(***************************************************************************)
EXTENDS Integers, Sequences, FiniteSets, TLC

VARIABLES
  files,          \* the pages directory: the set of its files
  pc,             \* where the dispatch stands: the collaborator load() awaits
  rawPathname,    \* load's argument ('' and undefined are both <<>>)
  reqPath,        \* load's reqPath
  searchResult,   \* what searchForPage returned
  decl,           \* what the page's createCollection() returned
  collection,     \* load's collection object
  additionalURLs, \* load's additionalURLs set
  caught,         \* the exception the catch block of load() received
  result,         \* what load() returned (or the exception it let through)
  invoked         \* the collaborators this dispatch has called

vars == <<files, pc, rawPathname, reqPath, searchResult, decl, collection,
          additionalURLs, caught, result, invoked>>

(***************************************************************************)
(* Bounds of the model.                                                    *)
(***************************************************************************)
\* number of path segments that may follow the first one of a path given to searchForPage
MaxTail == 2
\* the same for the raw pathnames given to load()
MaxRequestTail == 1
\* largest page size a collection declares
MaxPageSize == 2
\* largest length of a dataset (besides the one just above the default size)
MaxLen == 4

(***************************************************************************)
(* Strings.                                                                *)
(***************************************************************************)
Digits == <<"0", "1", "2", "3", "4", "5", "6", "7", "8", "9">>

IsDigit(c) == \E i \in 1..10 : Digits[i] = c

DigitVal(c) == (CHOOSE i \in 1..10 : Digits[i] = c) - 1

startsWith(s, p) == Len(s) >= Len(p) /\ SubSeq(s, 1, Len(p)) = p

endsWith(s, p) == Len(s) >= Len(p) /\ SubSeq(s, Len(s) - Len(p) + 1, Len(s)) = p

\* s.substr(k) for a 0-based k
substr(s, k) == SubSeq(s, k + 1, Len(s))

\* s.split('/')
RECURSIVE split(_)
split(s) ==
  IF \A i \in 1..Len(s) : s[i] # "/"
  THEN <<s>>
  ELSE LET i == CHOOSE j \in 1..Len(s) : s[j] = "/" /\ \A k \in 1..(j - 1) : s[k] # "/"
       IN  <<SubSeq(s, 1, i - 1)>> \o split(SubSeq(s, i + 1, Len(s)))

\* segs.filter((s) => !!s)
filterNonEmpty(segs) == SelectSeq(segs, LAMBDA x : x # <<>>)

\* segs.join('/')
RECURSIVE join(_)
join(segs) ==
  IF segs = <<>> THEN <<>>
  ELSE IF Len(segs) = 1 THEN segs[1]
  ELSE segs[1] \o <<"/">> \o join(Tail(segs))

\* String(n) of an integer
RECURSIVE NatStr(_)
NatStr(n) == IF n < 10 THEN <<Digits[n + 1]>> ELSE NatStr(n \div 10) \o <<Digits[(n % 10) + 1]>>

NumStr(n) == IF n < 0 THEN <<"-">> \o NatStr(0 - n) ELSE NatStr(n)

\* the number a non-empty run of digits denotes
RECURSIVE DigitsVal(_)
DigitsVal(ds) ==
  IF ds = <<>> THEN 0 ELSE 10 * DigitsVal(SubSeq(ds, 1, Len(ds) - 1)) + DigitVal(ds[Len(ds)])

\* the longest prefix of s made of digits
RECURSIVE DigitPrefix(_)
DigitPrefix(s) ==
  IF s # <<>> /\ IsDigit(s[1]) THEN <<s[1]>> \o DigitPrefix(Tail(s)) ELSE <<>>

\* the number of digits s ends with
RECURSIVE TrailingDigits(_)
TrailingDigits(s) ==
  IF s # <<>> /\ IsDigit(s[Len(s)]) THEN 1 + TrailingDigits(SubSeq(s, 1, Len(s) - 1)) ELSE 0

(***************************************************************************)
(* JavaScript values: undefined / NaN is <<>>, a number n is <<n>>.        *)
(***************************************************************************)
Undefined == <<>>

Num(n) == <<n>>

\* !!x for x undefined, NaN or a number
Truthy(x) == x # Undefined /\ x[1] # 0

\* parseInt(s, 10): an optional sign, then the longest run of digits; NaN without one
parseInt(s) ==
  LET neg  == s # <<>> /\ s[1] = "-"
      body == IF s # <<>> /\ s[1] \in {"-", "+"} THEN Tail(s) ELSE s
      ds   == DigitPrefix(body)
  IN  IF ds = <<>> THEN Undefined
      ELSE Num(IF neg THEN 0 - DigitsVal(ds) ELSE DigitsVal(ds))

\* !!path.extname(p): the last non-empty segment has a dot that is not its first
\* character, and is not '..'
hasExtname(p) ==
  LET segs == filterNonEmpty(split(p))
      b    == IF segs = <<>> THEN <<>> ELSE segs[Len(segs)]
  IN  /\ b # <<".", ".">>
      /\ \E i \in 2..Len(b) : b[i] = "."

(***************************************************************************)
(* The pages directory.                                                    *)
(***************************************************************************)
DotAstro == <<".", "a", "s", "t", "r", "o">>
DotMd == <<".", "m", "d">>
IndexAstro == <<"i", "n", "d", "e", "x">> \o DotAstro
IndexMd == <<"i", "n", "d", "e", "x">> \o DotMd
IndexHtml == <<"i", "n", "d", "e", "x", ".", "h", "t", "m", "l">>

\* $t.astro : the collection template named t
TemplateT == <<"$", "t">> \o DotAstro
\* b/$u.astro : a collection template in a directory
TemplateU == <<"b", "/", "$", "u">> \o DotAstro
\* b/index.astro, b/index.md, b.md, index.astro, t/2.astro : literal pages
BIndexAstro == <<"b", "/">> \o IndexAstro
BIndexMd == <<"b", "/">> \o IndexMd
BMd == <<"b">> \o DotMd
RootIndex == IndexAstro
T2Astro == <<"t", "/", "2">> \o DotAstro

\* every file a pages directory of the model may hold, in directory order
FileOrder == <<TemplateT, BIndexAstro, BIndexMd, BMd, TemplateU, RootIndex, T2Astro>>

FileUniverse == {FileOrder[i] : i \in 1..Len(FileOrder)}

\* the built-in page of the reserved path /500
Frontend500 == <<"#", "f", "r", "o", "n", "t", "e", "n", "d", "/", "5", "0", "0">> \o DotAstro

Path500 == <<"/", "5", "0", "0">>

\* existsSync(new URL(`./${candidate}`, pages)): the file system ignores empty segments
existsSync(candidate, fs) == join(filterNonEmpty(split(candidate))) \in fs

\* findAnyPage: the first candidate that exists, or false (<<>>)
RECURSIVE findAnyPage(_, _)
findAnyPage(candidates, fs) ==
  IF candidates = <<>> THEN <<>>
  ELSE IF existsSync(candidates[1], fs) THEN candidates[1]
  ELSE findAnyPage(Tail(candidates), fs)

\* glob('**/$*.astro'): the files whose base name is $<name>.astro, in directory order
isTemplate(f) ==
  LET segs == split(f)
      b    == segs[Len(segs)]
  IN  Len(b) > 1 + Len(DotAstro) /\ b[1] = "$" /\ endsWith(b, DotAstro)

glob(fs) == SelectSeq(FileOrder, LAMBDA f : f \in fs /\ isTemplate(f))

\* pageURL.replace(/\$([^/]+)\.astro/, '$1'): the template's path with `$` and
\* `.astro` dropped from its name
templateRoute(pageURL) ==
  LET segs == split(pageURL)
      b    == segs[Len(segs)]
      name == SubSeq(b, 2, Len(b) - Len(DotAstro))
  IN  join(SubSeq(segs, 1, Len(segs) - 1) \o <<name>>)

\* url.match(new RegExp('^/' + route + '(?:/(.*)|/?$)')):
\* <<>> for no match, else <<match[1]>> with match[1] a string or Undefined (as <<>>)
matchRoute(url, route) ==
  LET prefix == <<"/">> \o route
      rest   == substr(url, Len(prefix))
  IN  IF ~startsWith(url, prefix) THEN <<>>
      ELSE IF rest = <<>> THEN <<Undefined>>
      ELSE IF rest[1] = "/" THEN <<Tail(rest)>>
      ELSE <<>>

\* pageOfMatch reading the first segment of match[1] (shift for pop)
pageOfMatchShift(m1) ==
  LET segments == filterNonEmpty(split(m1))
  IN  IF m1 = <<>> \/ segments = <<>> THEN Undefined
      ELSE IF Truthy(parseInt(segments[1])) THEN parseInt(segments[1]) ELSE Undefined

\* the page number loadCollection reads off match[1]
pageOfMatch(m1) ==
  LET segments == filterNonEmpty(split(m1))
  IN  IF m1 = <<>> \/ segments = <<>> THEN Undefined
      ELSE LET last == segments[Len(segments)]
           IN  IF Truthy(parseInt(last)) THEN parseInt(last) ELSE Undefined

\* loadCollection: <<>> for undefined, else <<[location, currentPage]>>
RECURSIVE loadCollectionFrom(_, _)
loadCollectionFrom(url, pages) ==
  IF pages = <<>> THEN <<>>
  ELSE LET match == matchRoute(url, templateRoute(pages[1]))
       IN  IF match # <<>>
           THEN <<[location |-> pages[1], currentPage |-> pageOfMatch(match[1])]>>
           ELSE loadCollectionFrom(url, Tail(pages))

loadCollection(url, fs) == loadCollectionFrom(url, glob(fs))

NoLocation == <<>>

SearchFound(location, pathname, currentPage) ==
  [statusCode |-> 200, location |-> location, pathname |-> pathname,
   currentPage |-> currentPage]

\* directCandidates without the branch for a path that ends in '/'
directCandidatesByName(urlPath) ==
  <<substr(urlPath, 1) \o DotAstro, substr(urlPath, 1) \o DotMd>>

\* lines 40-41 and 50-52: the candidates tried first
directCandidates(urlPath) ==
  LET base == substr(urlPath, 1)
  IN  IF endsWith(urlPath, <<"/">>) THEN <<base \o IndexAstro, base \o IndexMd>>
      ELSE <<base \o DotAstro, base \o DotMd>>

\* searchForPage(url, astroConfig) for the decoded pathname of url
searchForPage(urlPath, fs) ==
  LET base       == substr(urlPath, 1)
      direct     == findAnyPage(directCandidates(urlPath), fs)
      index      == findAnyPage(<<base \o <<"/">> \o IndexAstro,
                                  base \o <<"/">> \o IndexMd>>, fs)
      collection_ == loadCollection(urlPath, fs)
  IN  IF direct # <<>> THEN SearchFound(direct, urlPath, Undefined)
      ELSE IF index # <<>>
      THEN [statusCode |-> 301, location |-> NoLocation,
            pathname |-> urlPath \o <<"/">>, currentPage |-> Undefined]
      ELSE IF ~hasExtname(urlPath) /\ collection_ # <<>>
      THEN SearchFound(collection_[1].location, urlPath,
                       IF Truthy(collection_[1].currentPage)
                       THEN collection_[1].currentPage ELSE Num(1))
      ELSE IF urlPath = Path500 THEN SearchFound(Frontend500, urlPath, Undefined)
      ELSE [statusCode |-> 404, location |-> NoLocation, pathname |-> <<>>,
            currentPage |-> Undefined]

(***************************************************************************)
(* Requests.                                                               *)
(***************************************************************************)
\* ASTRO_FRONTEND, the prefix of the internal assets
ASTRO_FRONTEND ==
  <<"/", "_", "a", "s", "t", "r", "o", "_", "f", "r", "o", "n", "t", "e", "n", "d">>

Heads == {<<"t">>, <<"b">>, <<"j">>, <<"$", "t">>, <<"5", "0", "0">>, Tail(ASTRO_FRONTEND)}

Tails == {<<"a">>, <<"1">>, <<"2">>, <<"-", "3">>, <<"0">>, <<"2", "x">>}

\* the paths of at most n segments after the first, each `/`-prefixed
RECURSIVE TailsUpTo(_)
TailsUpTo(n) ==
  IF n = 0 THEN {<<>>}
  ELSE {<<>>} \cup {<<"/">> \o t \o r : t \in Tails, r \in TailsUpTo(n - 1)}

PathsUpTo(n) ==
  {<<"/">>} \cup {<<"/">> \o h \o r \o s : h \in Heads, r \in TailsUpTo(n),
                                           s \in {<<>>, <<"/">>}}

\* the request paths given to searchForPage alone
SearchPaths == PathsUpTo(MaxTail)

\* the raw pathnames given to load(): the empty string stands for '' and undefined
Requests == {<<>>} \cup PathsUpTo(MaxRequestTail)

\* the pages directories load() runs against
PagesDirs == {{TemplateT, BIndexAstro, RootIndex}, {TemplateT, TemplateU, T2Astro, BMd}}

(***************************************************************************)
(* Errors and results.                                                     *)
(***************************************************************************)
Err(class, code, window, failed, msg) ==
  [class |-> class, code |-> code, window |-> window, failed |-> failed, msg |-> msg]

NoError == Err("none", "", FALSE, FALSE, "")

\* the Error objects a collaborator may throw: window = the text contains 'window is not defined'
Thrown ==
  {Err("Error", "", FALSE, FALSE, "user"),
   Err("CompileError", "parse-error", FALSE, FALSE, "user"),
   Err("SyntaxError", "", FALSE, FALSE, "user"),
   Err("ReferenceError", "", TRUE, FALSE, "user"),
   Err("ReferenceError", "parse-error", TRUE, FALSE, "user"),
   Err("ReferenceError", "", FALSE, FALSE, "user"),
   Err("NotFoundError", "", FALSE, FALSE, "user")}

\* what viteServer.transformRequest may throw
TransformThrown ==
  {Err("Error", "", FALSE, TRUE, "user"), Err("Error", "", FALSE, FALSE, "user")}

\* the errors load() itself creates
ConfigError(msg) == Err("Error", "", FALSE, FALSE, msg)

SsrGuidance == Err("Error", "", FALSE, FALSE, "window-not-available-during-ssr")

CouldNotFind == Err("CompileError", "", FALSE, FALSE, "could-not-find")

ConfigMessages ==
  {"unknown-option", "must-return-data", "permalink-requires-routes",
   "routes-requires-permalink"}

\* info: the collectionInfo of the result: "none", or the additionalURLs with or
\* without the rss feed
Result(statusCode, type, error, location, info) ==
  [statusCode |-> statusCode, type |-> type, error |-> error, location |-> location,
   info |-> info, threw |-> FALSE]

\* load() ends by throwing e
Propagated(e) ==
  [statusCode |-> 0, type |-> "", error |-> e, location |-> <<>>, info |-> "none",
   threw |-> TRUE]

NoResult == Result(0, "", NoError, <<>>, "none")

\* classify without the `&& rawPathname` of line 242
classifyAnyPathname(err, raw) ==
  IF err.code = "parse-error" \/ err.class = "SyntaxError"
  THEN Result(500, "parse-error", err, <<>>, "none")
  ELSE IF err.class = "ReferenceError" /\ err.window
  THEN Result(500, "ssr", SsrGuidance, <<>>, "none")
  ELSE IF err.class = "NotFoundError"
  THEN Result(500, "not-found", CouldNotFind, <<>>, "none")
  ELSE Result(500, "unknown", err, <<>>, "none")

\* the catch block of load(), lines 220-280
classify(err, raw) ==
  IF err.code = "parse-error" \/ err.class = "SyntaxError"
  THEN Result(500, "parse-error", err, <<>>, "none")
  ELSE IF err.class = "ReferenceError" /\ err.window
  THEN Result(500, "ssr", SsrGuidance, <<>>, "none")
  ELSE IF err.class = "NotFoundError" /\ raw # <<>>
  THEN Result(500, "not-found", CouldNotFind, <<>>, "none")
  ELSE Result(500, "unknown", err, <<>>, "none")

\* the catch block around transformRequest, lines 59-67
transformFailure(err) ==
  IF err.failed THEN Result(500, "unknown", err, <<>>, "none")
  ELSE Result(404, "", err, <<>>, "none")

(***************************************************************************)
(* Collections.                                                            *)
(***************************************************************************)
DefaultPageSize == 25

VALID_KEYS == {"data", "routes", "permalink", "pageSize", "rss"}

AllKeys == VALID_KEYS \cup {"foo"}

\* a page size: Infinity, or a number (0 when the declaration gives none)
Infinity == [inf |-> TRUE, n |-> 0]

Finite(k) == [inf |-> FALSE, n |-> k]

NoPageSize == Finite(0)

\* the route lists a declaration may give (<<>> when it gives none)
RouteLists == {<< <<"a">>, <<"b">> >>, << <<"b">> >>}

\* the page's permalink function: ({ params }) => `/t/${params}`
permalink(p) == <<"/", "t", "/">> \o p

\* what createCollection() may return
Decls ==
  {d \in [keys : SUBSET AllKeys,
          pageSize : {NoPageSize, Infinity} \cup {Finite(k) : k \in 1..MaxPageSize},
          routes : RouteLists \cup {<<>>}] :
     /\ (d.pageSize = NoPageSize) <=> ("pageSize" \notin d.keys)
     /\ (d.routes = <<>>) <=> ("routes" \notin d.keys)}

NoDecl == [keys |-> {}, pageSize |-> NoPageSize, routes |-> <<>>]

\* the lengths of the dataset data() may return
DataLens == 0..MaxLen \cup {DefaultPageSize + 1}

\* validate without the loop over the keys of lines 87-91
validateKnownKeys(d) ==
  IF "data" \notin d.keys THEN "must-return-data"
  ELSE IF "routes" \in d.keys \/ "permalink" \in d.keys
  THEN IF "routes" \notin d.keys THEN "permalink-requires-routes"
       ELSE IF "permalink" \notin d.keys THEN "routes-requires-permalink"
       ELSE ""
  ELSE ""

\* the checks of the declaration, lines 86-100: "" when it passes
validate(d) ==
  IF \E k \in d.keys : k \notin VALID_KEYS THEN "unknown-option"
  ELSE IF "data" \notin d.keys THEN "must-return-data"
  ELSE IF "routes" \in d.keys \/ "permalink" \in d.keys
  THEN IF "routes" \notin d.keys THEN "permalink-requires-routes"
       ELSE IF "permalink" \notin d.keys THEN "routes-requires-permalink"
       ELSE ""
  ELSE ""

\* routes.find(...), lines 102-106: the URLs added until a route matches, and that route
RECURSIVE findRoute(_, _, _, _)
findRoute(routes, path, currentPage, urls) ==
  IF routes = <<>> THEN [urls |-> urls, params |-> Undefined]
  ELSE LET baseURL == permalink(routes[1])
           page    == IF Truthy(currentPage) THEN currentPage[1] ELSE 1
       IN  IF baseURL = path \/ baseURL \o <<"/">> \o NumStr(page) = path
           THEN [urls |-> urls \cup {baseURL}, params |-> <<routes[1]>>]
           ELSE findRoute(Tail(routes), path, currentPage, urls \cup {baseURL})

NoCollection ==
  [has |-> FALSE, start |-> 0, end |-> 0, total |-> 0,
   page |-> [current |-> 1, size |-> NoPageSize, last |-> 1],
   url |-> [current |-> <<>>, next |-> <<>>, prev |-> <<>>],
   params |-> Undefined, data |-> <<>>]

Min(a, b) == IF a < b THEN a ELSE b

Max(a, b) == IF a > b THEN a ELSE b

\* data.slice(start, end) of an array
slice(data, start, end) ==
  LET k == IF start < 0 THEN Max(Len(data) + start, 0) ELSE Min(start, Len(data))
      f == IF end < 0 THEN Max(Len(data) + end, 0) ELSE Min(end, Len(data))
  IN  IF f > k THEN SubSeq(data, k + 1, f) ELSE <<>>

\* Math.ceil(length / pageSize)
ceilDiv(length, size) == IF size.inf THEN 0 ELSE (length + size.n - 1) \div size.n

\* url.replace(/(\/\d+)?$/, `/${n}`)
replacePage(url, n) ==
  LET k == TrailingDigits(url)
  IN  IF k >= 1 /\ Len(url) > k /\ url[Len(url) - k] = "/"
      THEN SubSeq(url, 1, Len(url) - k - 1) \o <<"/">> \o NumStr(n)
      ELSE url \o <<"/">> \o NumStr(n)

\* url.replace(/\d+$/, `${currentPage - 1 || 1}`).replace(/\/1$/, '')
prevPage(url, currentPage) ==
  LET k      == TrailingDigits(url)
      target == IF currentPage - 1 # 0 THEN currentPage - 1 ELSE 1
      s1     == IF k >= 1 THEN SubSeq(url, 1, Len(url) - k) \o NumStr(target) ELSE url
  IN  IF endsWith(s1, <<"/", "1">>) THEN SubSeq(s1, 1, Len(s1) - 2) ELSE s1

\* the loop of lines 151-161 from page n on; a Set's forEach also visits what the
\* callback adds, and replacePage(replacePage(u, n), n) = replacePage(u, n)
RECURSIVE addPages(_, _, _, _)
addPages(urls, path, n, last) ==
  IF n > last THEN urls
  ELSE addPages(IF urls # {} THEN urls \cup {replacePage(u, n) : u \in urls}
                ELSE {replacePage(path, n)},
                path, n + 1, last)

\* lines 118-123, 172, 184, 217: collectionInfo, with rss when the declaration has one
collectionInfo(d) == IF "rss" \in d.keys THEN "urls+rss" ELSE "urls"

\* lines 92-94 and 125-163: the collection of a dataset of `length` records
paginate(d, path, currentPage, length, params) ==
  LET pageSize == IF d.pageSize = NoPageSize THEN Finite(DefaultPageSize) ELSE d.pageSize
      data     == [i \in 1..length |-> i]
      base     == [has |-> TRUE, start |-> 0, end |-> length - 1, total |-> length,
                   page |-> [current |-> 1, size |-> pageSize, last |-> 1],
                   url |-> [current |-> path, next |-> <<>>, prev |-> <<>>],
                   params |-> params, data |-> data]
  IN  IF Truthy(currentPage)
      THEN LET cp    == currentPage[1]
               start == IF pageSize.inf THEN 0 ELSE (cp - 1) * pageSize.n
               end   == IF pageSize.inf THEN length ELSE Min(start + pageSize.n, length)
           IN  [base EXCEPT
                  !.start = start,
                  !.end = end - 1,
                  !.page = [current |-> cp, size |-> pageSize,
                            last |-> ceilDiv(length, pageSize)],
                  !.url = [current |-> path,
                           next |-> IF end < length THEN replacePage(path, cp + 1) ELSE <<>>,
                           prev |-> IF cp > 1 THEN prevPage(path, cp) ELSE <<>>],
                  !.data = slice(data, start, end)]
      ELSE base

(***************************************************************************)
(* load(): one action per collaborator it awaits, each with the code that  *)
(* runs up to the next await or return.                                    *)
(***************************************************************************)
NoSearch ==
  [statusCode |-> 0, location |-> NoLocation, pathname |-> <<>>, currentPage |-> Undefined]

\* decodeURI(new URL(rawPathname || '/', origin).pathname), for the absolute,
\* '%'-free pathnames of Requests
fullPath(raw) == IF raw = <<>> THEN <<"/">> ELSE raw

Idle ==
  /\ pc = "idle"
  /\ rawPathname = <<>>
  /\ reqPath = <<>>
  /\ searchResult = NoSearch
  /\ decl = NoDecl
  /\ collection = NoCollection
  /\ additionalURLs = {}
  /\ caught = NoError
  /\ result = NoResult
  /\ invoked = {}

Init == files \in PagesDirs /\ Idle

\* what a collaborator does when called: it returns (kind says what) or throws err
Outcome(kind, err, d, length) == [kind |-> kind, err |-> err, decl |-> d, length |-> length]

Returns(kind) == Outcome(kind, NoError, NoDecl, 0)

Throws(errors) == {Outcome("throw", e, NoDecl, 0) : e \in errors}

\* lines 23-32: a request arrives
Request(raw) ==
  /\ pc = "idle"
  /\ rawPathname' = raw
  /\ reqPath' = IF endsWith(fullPath(raw), <<"/">>) THEN fullPath(raw) \o IndexHtml
                ELSE fullPath(raw)
  /\ pc' = "static"
  /\ UNCHANGED <<files, searchResult, decl, collection, additionalURLs, caught, result,
                 invoked>>

\* load() returns r
Return(r) == result' = r /\ pc' = "done"

\* the catch block of lines 220-280 receives err
Catch(err) == caught' = err /\ Return(classify(err, rawPathname))

\* lines 34-48, 70-72: the static file, then the page search
LoadStaticFile(outcome) ==
  /\ pc = "static"
  /\ invoked' = invoked \cup {"static"}
  /\ IF outcome.kind = "200"
     THEN Return(Result(200, "", NoError, <<>>, "none")) /\ UNCHANGED searchResult
     ELSE IF startsWith(reqPath, ASTRO_FRONTEND)
     THEN pc' = "internal" /\ UNCHANGED <<result, searchResult>>
     ELSE LET found == searchForPage(fullPath(rawPathname), files)
          IN  /\ searchResult' = found
              /\ IF found.statusCode = 404 THEN pc' = "transform" /\ UNCHANGED result
                 ELSE IF found.statusCode = 301
                 THEN Return(Result(301, "", NoError, found.pathname, "none"))
                 ELSE pc' = "ssrLoad" /\ UNCHANGED result
  /\ UNCHANGED <<files, rawPathname, reqPath, decl, collection, additionalURLs, caught>>

\* lines 43-45: return await loadInternalFile(reqPath)
LoadInternalFile(outcome) ==
  /\ pc = "internal"
  /\ invoked' = invoked \cup {"internal"}
  /\ Return(outcome)
  /\ UNCHANGED <<files, rawPathname, reqPath, searchResult, decl, collection,
                 additionalURLs, caught>>

\* what loadInternalFile may do
InternalOutcomes ==
  {Result(200, "", NoError, <<>>, "none"), Result(404, "", NoError, <<>>, "none"),
   Propagated(Err("Error", "", FALSE, FALSE, "user"))}

\* lines 49-68: viteServer.transformRequest for what is no page
TransformRequest(outcome) ==
  /\ pc = "transform"
  /\ invoked' = invoked \cup {"transform"}
  /\ IF outcome.kind = "code" THEN Return(Result(200, "", NoError, <<>>, "none"))
     ELSE IF outcome.kind = "null"
     THEN Return(transformFailure(Err("Error", "", FALSE, FALSE, "unable-to-load")))
     ELSE Return(transformFailure(outcome.err))
  /\ UNCHANGED <<files, rawPathname, reqPath, searchResult, decl, collection,
                 additionalURLs, caught>>

\* lines 78-84: viteServer.ssrLoadModule
SsrLoadModule(outcome) ==
  /\ pc = "ssrLoad"
  /\ invoked' = invoked \cup {"ssrLoadModule"}
  \* the built-in frontend/500.astro exports no createCollection
  /\ outcome.kind = "collection" => searchResult.location # Frontend500
  /\ IF outcome.kind = "throw" THEN Catch(outcome.err)
     ELSE /\ pc' = IF outcome.kind = "collection" THEN "createCollection" ELSE "render"
          /\ UNCHANGED <<caught, result>>
  /\ UNCHANGED <<files, rawPathname, reqPath, searchResult, decl, collection,
                 additionalURLs>>

\* lines 85-111: mod.createCollection(), the checks of what it returns, the routes
CreateCollection(outcome) ==
  /\ pc = "createCollection"
  /\ IF outcome.kind = "throw"
     THEN /\ Catch(outcome.err)
          /\ invoked' = invoked \cup {"createCollection"}
          /\ UNCHANGED <<decl, collection, additionalURLs>>
     ELSE /\ decl' = outcome.decl
          /\ IF validate(outcome.decl) # ""
             THEN /\ Catch(ConfigError(validate(outcome.decl)))
                  /\ invoked' = invoked \cup {"createCollection"}
                  /\ UNCHANGED <<collection, additionalURLs>>
             ELSE LET found == findRoute(outcome.decl.routes, reqPath,
                                         searchResult.currentPage, {})
                  IN  /\ additionalURLs' = found.urls
                      /\ collection' = [collection EXCEPT !.params = found.params]
                      /\ invoked' = invoked \cup {"createCollection"}
                                      \cup (IF outcome.decl.routes # <<>> THEN {"permalink"} ELSE {})
                      /\ pc' = "data"
                      /\ UNCHANGED <<caught, result>>
  /\ UNCHANGED <<files, rawPathname, reqPath, searchResult>>

\* lines 113-190: data(), then the pagination
LoadData(outcome) ==
  /\ pc = "data"
  /\ invoked' = invoked \cup {"data"}
  /\ IF outcome.kind = "throw"
     THEN Catch(outcome.err) /\ UNCHANGED <<collection, additionalURLs>>
     ELSE IF outcome.kind = "nothing"
     THEN Catch(ConfigError("data-returned-nothing")) /\ UNCHANGED <<collection, additionalURLs>>
     ELSE LET length == IF outcome.kind = "object" THEN 1 ELSE outcome.length
              paged  == paginate(decl, reqPath, searchResult.currentPage, length,
                                 collection.params)
              urls   == IF Truthy(searchResult.currentPage)
                        THEN addPages(additionalURLs, reqPath, 1, paged.page.last)
                        ELSE additionalURLs
          IN  /\ collection' = paged
              /\ additionalURLs' = urls
              /\ IF ~Truthy(searchResult.currentPage) /\ "pageSize" \in decl.keys
                 THEN /\ Return(Result(301, "", NoError, reqPath \o <<"/", "1">>,
                                     collectionInfo(decl)))
                      /\ UNCHANGED caught
                 ELSE IF paged.data = <<>>
                 THEN /\ Return(Result(404, "", ConfigError("Not Found"), <<>>,
                                     collectionInfo(decl)))
                      /\ UNCHANGED caught
                 ELSE pc' = "render" /\ UNCHANGED <<caught, result>>
  /\ UNCHANGED <<files, rawPathname, reqPath, searchResult, decl>>

\* lines 192-219: mod.__renderPage
RenderPage(outcome) ==
  /\ pc = "render"
  /\ invoked' = invoked \cup {"render"}
  /\ IF outcome.kind = "throw" THEN Catch(outcome.err)
     ELSE Return(Result(200, "", NoError, <<>>, collectionInfo(decl))) /\ UNCHANGED caught
  /\ UNCHANGED <<files, rawPathname, reqPath, searchResult, decl, collection,
                 additionalURLs>>

\* the caller has the result; nothing of the dispatch is kept
Respond ==
  /\ pc = "done"
  /\ pc' = "idle"
  /\ rawPathname' = <<>>
  /\ reqPath' = <<>>
  /\ searchResult' = NoSearch
  /\ decl' = NoDecl
  /\ collection' = NoCollection
  /\ additionalURLs' = {}
  /\ caught' = NoError
  /\ result' = NoResult
  /\ invoked' = {}
  /\ UNCHANGED files

Next ==
  \/ \E raw \in Requests : Request(raw)
  \/ \E outcome \in {Returns("200"), Returns("404")} \cup Throws({Err("Error", "", FALSE, FALSE, "user")}) :
        LoadStaticFile(outcome)
  \/ \E outcome \in InternalOutcomes : LoadInternalFile(outcome)
  \/ \E outcome \in {Returns("code"), Returns("null")} \cup Throws(TransformThrown) :
        TransformRequest(outcome)
  \/ \E outcome \in {Returns("collection"), Returns("page")} \cup Throws(Thrown) :
        SsrLoadModule(outcome)
  \/ \E outcome \in {Outcome("declaration", NoError, d, 0) : d \in Decls} \cup Throws(Thrown) :
        CreateCollection(outcome)
  \/ \E outcome \in {Outcome("array", NoError, NoDecl, n) : n \in DataLens}
                      \cup {Returns("object"), Returns("nothing")} \cup Throws(Thrown) :
        LoadData(outcome)
  \/ \E outcome \in {Returns("html")} \cup Throws(Thrown) : RenderPage(outcome)
  \/ Respond

Spec == Init /\ [][Next]_vars

(***************************************************************************)
(* searchForPage on its own: every pages directory, every path.            *)
(***************************************************************************)
InitSearch == files \in SUBSET FileUniverse /\ Idle

\* searchForPage(url, astroConfig) is called and returns
Search(url) ==
  /\ pc = "idle"
  /\ rawPathname' = url
  /\ searchResult' = searchForPage(url, files)
  /\ pc' = "searched"
  /\ UNCHANGED <<files, reqPath, decl, collection, additionalURLs, caught, result, invoked>>

\* the result is dropped: nothing is kept between two searches
Forget ==
  /\ pc = "searched"
  /\ pc' = "idle"
  /\ rawPathname' = <<>>
  /\ searchResult' = NoSearch
  /\ UNCHANGED <<files, reqPath, decl, collection, additionalURLs, caught, result, invoked>>

NextSearch == (\E url \in SearchPaths : Search(url)) \/ Forget

SearchSpec == InitSearch /\ [][NextSearch]_vars

(***************************************************************************)
(* The claims.                                                             *)
(***************************************************************************)
Ok200 == pc = "done" /\ ~result.threw /\ result.statusCode = 200

\* a 200 whose page was rendered with a collection
Ok200Collection == Ok200 /\ collection.has

\* the segments of a path after its leading slash
segmentsOf(path) == filterNonEmpty(split(path))

lastSegment(path) ==
  IF segmentsOf(path) = <<>> THEN <<>> ELSE segmentsOf(path)[Len(segmentsOf(path))]

AllDigits(seg) == seg # <<>> /\ \A i \in 1..Len(seg) : IsDigit(seg[i])

\* a literal page or index file answers the path
LiteralAnswers(path, fs) ==
  LET base == join(segmentsOf(path))
  IN  \E file \in {base \o DotAstro, base \o DotMd, base \o <<"/">> \o IndexAstro,
                   base \o <<"/">> \o IndexMd, base \o IndexAstro, base \o IndexMd} :
        file \in fs

\* C1: load() always ends by returning a result whose statusCode is 200, 301, 404 or
\* 500, whatever the collaborators do; it never lets an exception through.
C1_LoadNeverThrows ==
  pc = "done" => ~result.threw /\ result.statusCode \in {200, 301, 404, 500}

\* C2: every 200 that carries a collection has page.last = ceil(total / page size) and
\* a data slice of 1 to page-size records (never a 200 with no record).
C2_LastPageAndSlice ==
  Ok200Collection =>
    LET size == collection.page.size
    IN  /\ Len(collection.data) >= 1
        /\ IF size.inf THEN collection.page.last = 0
           ELSE /\ collection.page.last * size.n >= collection.total
                /\ (collection.page.last - 1) * size.n < collection.total
                /\ Len(collection.data) <= size.n

\* the request states its page as a plain positive integer, or states none
PlainPageRequest ==
  parseInt(lastSegment(fullPath(rawPathname))) = Undefined
    \/ AllDigits(lastSegment(fullPath(rawPathname)))

\* url resolves to the collection file of this request, at page n
ResolvesTo(url, n) ==
  LET found == searchForPage(url, files)
  IN  /\ found.statusCode = 200
      /\ found.location = searchResult.location
      /\ found.currentPage = Num(n)

\* C3: on a paginated 200 at page p, url.next is there exactly when p < page.last and
\* resolves to the same collection file at page p + 1; url.prev is there exactly when
\* p > 1 and resolves to it at page p - 1 -- with or without a trailing slash.
C3_NextPrevRoundTrip ==
  (/\ Ok200Collection
   /\ Truthy(searchResult.currentPage)
   /\ PlainPageRequest
   /\ collection.page.current \in 1..collection.page.last) =>
    LET p == collection.page.current
    IN  /\ (collection.url.next # <<>>) <=> (p < collection.page.last)
        /\ (collection.url.prev # <<>>) <=> (p > 1)
        /\ (collection.url.next # <<>> /\ ~LiteralAnswers(collection.url.next, files))
             => ResolvesTo(collection.url.next, p + 1)
        /\ (collection.url.prev # <<>> /\ ~LiteralAnswers(collection.url.prev, files))
             => ResolvesTo(collection.url.prev, p - 1)

\* C4: a request without a page number for a page whose declaration sets pageSize is
\* answered by a 301 to the request path + '/1', whose additionalURLs hold the URL of
\* every page from 1 to ceil(total / pageSize).
C4_RedirectToFirstPage ==
  (/\ pc = "done"
   /\ caught = NoError
   /\ collection.has
   /\ "pageSize" \in decl.keys
   /\ parseInt(lastSegment(fullPath(rawPathname))) = Undefined) =>
    /\ result.statusCode = 301
    /\ result.location = reqPath \o <<"/", "1">>
    /\ \A n \in 1..ceilDiv(collection.total, decl.pageSize) :
         replacePage(reqPath, n) \in additionalURLs

\* C5: on a paginated 200 the additionalURLs hold permalink(r) for every declared route
\* r, and permalink(r) + '/n' for every page n up to page.last; without routes, the
\* request path's URL of every page n.
C5_AdditionalURLsComplete ==
  (Ok200Collection /\ Truthy(searchResult.currentPage)) =>
    IF decl.routes # <<>>
    THEN \A i \in 1..Len(decl.routes) :
           /\ permalink(decl.routes[i]) \in additionalURLs
           /\ \A n \in 1..collection.page.last :
                permalink(decl.routes[i]) \o <<"/">> \o NumStr(n) \in additionalURLs
    ELSE \A n \in 1..collection.page.last : replacePage(reqPath, n) \in additionalURLs

\* the path is /<first>/.../<p>, with <p> a positive integer, and no trailing slash
PagedPath(path) ==
  /\ path = <<"/">> \o join(segmentsOf(path))
  /\ Len(segmentsOf(path)) >= 2
  /\ AllDigits(lastSegment(path))
  /\ DigitsVal(lastSegment(path)) >= 1

\* searchForPage has answered a path that $t.astro alone could answer
SearchedForTemplate ==
  /\ pc = "searched"
  /\ TemplateT \in files
  /\ ~LiteralAnswers(rawPathname, files)

FoundTemplateT(n) ==
  /\ searchResult.statusCode = 200
  /\ searchResult.location = TemplateT
  /\ searchResult.currentPage = Num(n)

\* C6, as stated: with $t.astro, /<value>/<p> resolves to $t.astro at page p for any
\* value, and /<value> alone to $t.astro at page 1.
C6_AnyValueResolves ==
  SearchedForTemplate =>
    /\ (PagedPath(rawPathname) /\ Len(segmentsOf(rawPathname)) = 2)
         => FoundTemplateT(DigitsVal(lastSegment(rawPathname)))
    /\ (Len(segmentsOf(rawPathname)) = 1
          /\ rawPathname = <<"/">> \o segmentsOf(rawPathname)[1])
         => FoundTemplateT(1)

\* C6, amended: $t.astro answers the paths under its own name: /t/.../<p> resolves to
\* it at page p, /t alone at page 1; a path whose first segment is not t never
\* resolves to it.
C6_TemplateNameRoute ==
  SearchedForTemplate =>
    /\ (PagedPath(rawPathname) /\ segmentsOf(rawPathname)[1] = <<"t">>)
         => FoundTemplateT(DigitsVal(lastSegment(rawPathname)))
    /\ rawPathname = <<"/", "t">> => FoundTemplateT(1)
    /\ (segmentsOf(rawPathname) # <<>> /\ segmentsOf(rawPathname)[1] # <<"t">>)
         => searchResult.location # TemplateT

C6_Witness ==
  /\ SearchedForTemplate
  /\ rawPathname = <<"/", "t", "/", "a", "/", "2">>
  /\ FoundTemplateT(2)

\* C7: for a path that ends in '/', searchForPage returns 200 or 404, never 301; a 301
\* is returned only for a path without trailing slash that has no {path}.astro or
\* {path}.md but a {path}/index.astro or {path}/index.md, and names {path}/.
C7_NoRedirectOnTrailingSlash ==
  pc = "searched" =>
    LET base == substr(rawPathname, 1)
    IN  /\ endsWith(rawPathname, <<"/">>) => searchResult.statusCode \in {200, 404}
        /\ searchResult.statusCode = 301 =>
             /\ ~endsWith(rawPathname, <<"/">>)
             /\ base \o DotAstro \notin files
             /\ base \o DotMd \notin files
             /\ base \o <<"/">> \o IndexAstro \in files
                  \/ base \o <<"/">> \o IndexMd \in files
             /\ searchResult.pathname = rawPathname \o <<"/">>

C7_Witness ==
  /\ pc = "searched"
  /\ rawPathname = <<"/", "b", "/">>
  /\ BIndexMd \in files
  /\ BIndexAstro \notin files
  /\ searchResult.statusCode = 200
  /\ searchResult.location = <<"b", "/">> \o IndexMd

\* the catch block of load() has received an exception and load() has ended
Caught == pc = "done" /\ caught # NoError

IsParseError(e) == e.code = "parse-error" \/ e.class = "SyntaxError"

IsWindowError(e) == e.class = "ReferenceError" /\ e.window

Is500(type) == ~result.threw /\ result.statusCode = 500 /\ result.type = type

Malformed(d) ==
  \/ d.keys \ {"data", "routes", "permalink", "pageSize", "rss"} # {}
  \/ "data" \notin d.keys
  \/ ("routes" \in d.keys) # ("permalink" \in d.keys)

\* C9: once createCollection has returned a malformed declaration, load() has ended
\* with a 500 that reports the configuration error, and data() and the render entry
\* point have not been called in this dispatch.
C9_MalformedFailsFast ==
  (decl # NoDecl /\ Malformed(decl)) =>
    /\ pc = "done"
    /\ Is500("unknown")
    /\ result.error.msg \in ConfigMessages
    /\ result.error = caught
    /\ "data" \notin invoked
    /\ "render" \notin invoked

C9_Witness ==
  /\ pc = "done"
  /\ "foo" \in decl.keys
  /\ "data" \in decl.keys
  /\ Is500("unknown")
  /\ result.error.msg = "unknown-option"
  /\ "data" \notin invoked

\* C10: a currentPage that searchForPage returns is a positive integer that the URL
\* states (1 when it states none), and a 200 with a collection has page.current >= 1
\* and start and end within 0..total-1.
C10_PositivePage ==
  /\ (searchResult.statusCode = 200 /\ searchResult.currentPage # Undefined) =>
       /\ searchResult.currentPage[1] >= 1
       /\ \/ /\ AllDigits(lastSegment(fullPath(rawPathname)))
             /\ DigitsVal(lastSegment(fullPath(rawPathname))) = searchResult.currentPage[1]
          \/ /\ parseInt(lastSegment(fullPath(rawPathname))) \in {Undefined, Num(0)}
             /\ searchResult.currentPage[1] = 1
  /\ Ok200Collection =>
       /\ collection.page.current >= 1
       /\ collection.start \in 0..(collection.total - 1)
       /\ collection.end \in 0..(collection.total - 1)

====
